---- MODULE Spec2Model ----
(***************************************************************************)
(* Verification model of senoval: String<Capacity> (string.hpp) and        *)
(* Vector<T, Capacity> (vector.hpp).                                       *)
(*                                                                         *)
(* One object of each class is modelled together with the caller that      *)
(* drives it.  pc is the caller's position: "idle" between two calls,      *)
(* "resize" inside the loops of resize(), "done" right after a call has    *)
(* returned, while its arguments and result (op) are still in scope.       *)
(* convertIntToString (string.hpp) is modelled one loop iteration per step: *)
(* pc is "conv" before an iteration of its do-while loop and "conv_sign"   *)
(* after the loop.                                                         *)
(***************************************************************************)
EXTENDS Integers, Sequences, FiniteSets, TLC

VARIABLES
    build,      \* "checked" (assert enabled) or "unchecked" (NDEBUG)
    aborted,    \* an assert has failed: the program is gone
    pc,         \* caller position: "idle", "resize", "done"
    op,         \* the call that has just returned: [name, arg, res]
    len_,       \* String::len_
    buf_,       \* String::buf_, indices 0..Capacity
    rsz,        \* resize(): parameter sz / count
    rfill,      \* resize(): parameter c / fill_value
    steps,      \* resize(): loop iterations executed by the current call (saturating)
    hist,       \* ghost: everything appended since the String was last empty;
                \* in the converter, the characters stored so far
    tracking,   \* ghost: hist is being maintained
    vlen_,      \* Vector::len_
    vbuf_,      \* Vector::buf_, indices 0..VCapacity-1
    oob,        \* ghost: a store outside the array it addresses was executed
    obj,        \* what the caller drives: "string", "vector", "converter" or
                \* "comparator"
    macros,     \* the macros the translation unit is compiled with
    T,          \* convertIntToString: the integral type T, [signed, bits]
    Radix,      \* convertIntToString: template parameter Radix
    x,          \* Container::Container: parameter x
    negative,   \* Container::Container: local negative
    offset_,    \* Container::offset_
    storage_    \* Container::storage_, indices 0..MaxChars

vars == <<build, aborted, pc, op, len_, buf_, rsz, rfill, steps, hist, tracking,
          vlen_, vbuf_, oob, obj, macros, T, Radix, x, negative, offset_, storage_>>

\* a macro of the translation unit: not defined, or defined with a value
Undefined == [defined |-> FALSE, value |-> 0]
Defined(v) == [defined |-> TRUE, value |-> v]

\* a translation unit that defines neither macro the comparator mentions
NoMacros ==
    [SENOVAL_DEFAULT_FLOAT_COMPARISON_EPSILON_MULT |-> Undefined,
     DEFAULT_FLOAT_COMPARISON_EPSILON_MULT |-> Undefined]

strVars == <<len_, buf_>>
vecVars == <<vlen_, vbuf_, oob>>
resizeVars == <<rsz, rfill, steps>>
convVars == <<T, Radix, x, negative, offset_, storage_>>

----------------------------------------------------------------------------
(* Bounds *)

\* String<Capacity>
Capacity == 3
\* characters are 0..MaxChar; 0 is '\0'
MaxChar == 2
\* Vector<T, VCapacity>
VCapacity == 2
\* element values are 0..MaxElem; 0 is T{}
MaxElem == 2

NUL == 0
Chars == 0..MaxChar
\* the characters the caller's arguments are made of: '\0', the smallest and
\* the largest character
ArgChars == {NUL, 1, MaxChar}
ArgTextChars == ArgChars \ {NUL}
MaxText == Capacity + 1
MaxHist == Capacity + MaxText
MaxSteps == Capacity + 2
Builds == {"checked", "unchecked"}

Min(a, b) == IF a < b THEN a ELSE b
SeqsUpTo(S, n) == UNION {[1..k -> S] : k \in 0..n}
Take(s, n) == SubSeq(s, 1, Min(n, Len(s)))

\* a terminator-delimited text behind a const char*: the characters before its '\0'
Texts == SeqsUpTo(ArgTextChars, MaxText)
\* an input range [begin, end) of characters; '\0' may occur in it
Ranges == SeqsUpTo(ArgChars, MaxText)

----------------------------------------------------------------------------
(* String<Capacity_>: a value is [len |-> len_, buf |-> buf_] *)

\* capacities of the other String objects handed to this one
OtherCaps == {Capacity - 1, Capacity, Capacity + 1}

\* the states a String<cap> can be in, as an argument; its slots past the
\* terminator are never read and are taken as zeroed storage
StringStates(cap) ==
    {[cap |-> cap, len |-> Len(r),
      buf |-> [i \in 0..cap |-> IF i < Len(r) THEN r[i + 1] ELSE NUL]] :
        r \in SeqsUpTo(ArgChars, cap)}
OtherStrings == UNION {StringStates(cap) : cap \in OtherCaps}

\* the characters begin()..end() iterates over: indices [0, len)
Content(len, buf) == [i \in 1..len |-> buf[i - 1]]

\* what a reader of c_str() sees: it scans from index 0 to the first '\0'.
\* A scan that finds none within the store leaves the object (cap + 1).
RECURSIVE ScanNul(_, _, _)
ScanNul(buf, cap, i) ==
    IF i > cap THEN i
    ELSE IF buf[i] = NUL THEN i
    ELSE ScanNul(buf, cap, i + 1)
CStrLen(buf, cap) == ScanNul(buf, cap, 0)
CStr(buf, cap) == [i \in 1..Min(CStrLen(buf, cap), cap + 1) |-> buf[i - 1]]

\* the store of a new object before its constructor body runs.  buf_ has no
\* initializer: the slots the constructor does not write (those past the
\* terminator) keep an arbitrary value, see Fresh
Blank == [i \in 0..Capacity |-> NUL]
Fresh(st) ==
    {[len |-> st.len,
      buf |-> [i \in 0..Capacity |-> IF i <= st.len THEN st.buf[i] ELSE tail[i]]] :
        tail \in [(st.len + 1)..Capacity -> Chars]}

\* String(): len_ = 0; buf_[len_] = '\0'
Constructed == [len |-> 0, buf |-> [Blank EXCEPT ![0] = NUL]]

\* operator+=(const char* p), p outside the object; k is how far p has advanced
RECURSIVE AppendLoopOff(_, _, _, _)
AppendLoopOff(st, cap, p, k) ==
    IF k < Len(p) /\ st.len < cap - 1
    THEN AppendLoopOff([len |-> st.len + 1, buf |-> [st.buf EXCEPT ![st.len] = p[k + 1]]],
                       cap, p, k + 1)
    ELSE [len |-> st.len, buf |-> [st.buf EXCEPT ![st.len] = NUL]]
RECURSIVE AppendLoop(_, _, _, _)
AppendLoop(st, cap, p, k) ==
    IF k < Len(p) /\ st.len < cap
    THEN AppendLoop([len |-> st.len + 1, buf |-> [st.buf EXCEPT ![st.len] = p[k + 1]]],
                    cap, p, k + 1)
    ELSE [len |-> st.len, buf |-> [st.buf EXCEPT ![st.len] = NUL]]

\* operator+=(const char* p) with p = this->c_str(): p reads the store the loop writes
RECURSIVE AppendLoopSelf(_, _, _)
AppendLoopSelf(st, cap, k) ==
    IF st.buf[k] # NUL /\ st.len < cap
    THEN AppendLoopSelf([len |-> st.len + 1, buf |-> [st.buf EXCEPT ![st.len] = st.buf[k]]],
                        cap, k + 1)
    ELSE [len |-> st.len, buf |-> [st.buf EXCEPT ![st.len] = NUL]]

\* String(InputIterator begin, end)
RECURSIVE RangeLoop(_, _, _, _)
RangeLoop(st, cap, r, k) ==
    IF k < Len(r) /\ st.len < cap
    THEN RangeLoop([len |-> st.len + 1, buf |-> [st.buf EXCEPT ![st.len] = r[k + 1]]],
                   cap, r, k + 1)
    ELSE [len |-> st.len, buf |-> [st.buf EXCEPT ![st.len] = NUL]]

\* push_back(c)
PushBackNoTerm(st, cap, c) ==
    IF st.len < cap
    THEN [len |-> st.len + 1, buf |-> [st.buf EXCEPT ![st.len] = c]]
    ELSE st
PushBackOp(st, cap, c) ==
    IF st.len < cap
    THEN [len |-> st.len + 1, buf |-> [st.buf EXCEPT ![st.len] = c, ![st.len + 1] = NUL]]
    ELSE [len |-> st.len, buf |-> [st.buf EXCEPT ![st.len] = NUL]]

\* pop_back()
PopBackOp(st) ==
    LET n == IF st.len > 0 THEN st.len - 1 ELSE st.len
    IN  [len |-> n, buf |-> [st.buf EXCEPT ![n] = NUL]]

\* resize(sz, c) as a whole, for sz <= cap (for a larger sz the first loop
\* does not end)
RECURSIVE ResizeOp(_, _, _, _)
ResizeOp(st, cap, sz, c) ==
    IF st.len < sz THEN ResizeOp(PushBackOp(st, cap, c), cap, sz, c)
    ELSE IF st.len > sz THEN ResizeOp(PopBackOp(st), cap, sz, c)
    ELSE st

\* a clear() that resets the length only
ClearLength(st) == [len |-> 0, buf |-> st.buf]

\* clear()
ClearOp(st) == [len |-> 0, buf |-> [st.buf EXCEPT ![0] = NUL]]

\* operator+=(const T& s): (*this) += s.c_str()
AppendStringOp(st, cap, t) == AppendLoop(st, cap, CStr(t.buf, t.cap), 0)

\* String(const String<C>&), C # Capacity: the template constructor, += on a new
\* object; C = Capacity: the implicit copy constructor copies len_ and buf_
CopyConstructed(cap, t) ==
    IF t.cap = cap
    THEN {[len |-> t.len, buf |-> t.buf]}
    ELSE Fresh(AppendStringOp([len |-> 0, buf |-> Blank], cap, t))

\* operator=(const T& s): clear(); (*this) += s.  Between two String<Capacity>
\* the implicit copy assignment is selected instead
AssignStringOp(st, cap, t) ==
    IF t.cap = cap
    THEN [len |-> t.len, buf |-> t.buf]
    ELSE AppendStringOp(ClearOp(st), cap, t)

\* operator==(const T& s): std::equal(begin(), end(), std::begin(s), std::end(s))
EqualRange(st, t) ==
    /\ st.len = t.len
    /\ \A i \in 0..(st.len - 1) : st.buf[i] = t.buf[i]

\* operator==(const char* s): 0 == std::strncmp(c_str(), s, sizeof(buf_));
\* s[k] is '\0' at the end of the text
RECURSIVE StrNCmpEq(_, _, _, _)
StrNCmpEq(buf, s, n, k) ==
    IF k >= n THEN TRUE
    ELSE LET a == buf[k]
             b == IF k < Len(s) THEN s[k + 1] ELSE NUL
         IN  IF a # b THEN FALSE
             ELSE IF a = NUL THEN TRUE
             ELSE StrNCmpEq(buf, s, n, k + 1)
EqualText(st, cap, s) == StrNCmpEq(st.buf, s, cap + 1, 0)

\* operator!=(const T& s): !operator==(s)
NotEqualRange(st, t) == ~EqualRange(st, t)
NotEqualText(st, cap, s) == ~EqualText(st, cap, s)

\* operator==(const char* left, const String& right): right == left
TextEqual(s, st, cap) == EqualText(st, cap, s)
\* operator!=(const char* left, const String& right): right != left
TextNotEqual(s, st, cap) == NotEqualText(st, cap, s)

\* the slot back() refers to; -1: assert(false) fired
BackRef(len, bld) ==
    IF len > 0 THEN len - 1
    ELSE IF bld = "checked" THEN -1 ELSE 0

\* operator[] that takes index <= len_ as valid
IndexRefInclusive(len, index, bld) ==
    IF index <= len THEN index
    ELSE IF bld = "checked" THEN -1 ELSE BackRef(len, bld)

\* the slot operator[](index) refers to; -1: assert(false) fired
IndexRef(len, index, bld) ==
    IF index < len THEN index
    ELSE IF bld = "checked" THEN -1 ELSE BackRef(len, bld)

\* operator+(const String<L>& left, const String<R>& right):
\* String<L + R> out(left); out += right.  L + R # L, so out(left) is the
\* template constructor: += left on a new object
ConcatStrings(left, lcap, right) ==
    LET cap == lcap + right.cap
        new == [len |-> 0, buf |-> [i \in 0..cap |-> NUL]]
        out == AppendLoop(new, cap, CStr(left.buf, lcap), 0)
        res == AppendStringOp(out, cap, right)
    IN  [cap |-> cap, len |-> res.len, buf |-> res.buf]

\* operator+(const String<Capacity>& left, const char* right):
\* String<Capacity> out(left); out += right.  out(left) is the implicit copy
\* constructor, which copies len_ and buf_
ConcatText(left, cap, right) ==
    LET res == AppendLoop(left, cap, right, 0)
    IN  [cap |-> cap, len |-> res.len, buf |-> res.buf]

Str == [len |-> len_, buf |-> buf_]
OpRec(name, arg, res) == [name |-> name, arg |-> arg, res |-> res]

----------------------------------------------------------------------------
(* Vector<T, Capacity_>: a value is [len |-> len_, buf |-> buf_, ab, oob];    *)
(* ab: an assert failed, oob: a store outside buf_ was executed               *)

Elems == 0..MaxElem
\* the initializer lists, input ranges and containers handed to the Vector
ElemSeqs == SeqsUpTo(Elems, VCapacity + 1)

VContent(len, buf) == [i \in 1..len |-> buf[i - 1]]

\* buf_[i] = v
VStore(st, cap, i, v) ==
    IF i < cap
    THEN [st EXCEPT !.buf = [st.buf EXCEPT ![i] = v]]
    ELSE [st EXCEPT !.oob = TRUE]

\* push_back(c)
VPushBackOff(st, cap, c, bld) ==
    IF st.len <= cap
    THEN [VStore(st, cap, st.len, c) EXCEPT !.len = st.len + 1]
    ELSE IF bld = "checked" THEN [st EXCEPT !.ab = TRUE] ELSE st
VPushBackSilent(st, cap, c, bld) ==
    IF st.len < cap
    THEN [VStore(st, cap, st.len, c) EXCEPT !.len = st.len + 1]
    ELSE st
\* push_back that counts the element without storing it
VPushBackBump(st, cap, c, bld) ==
    IF st.len < cap
    THEN [st EXCEPT !.len = st.len + 1]
    ELSE IF bld = "checked" THEN [st EXCEPT !.ab = TRUE] ELSE st
VPushBackOp(st, cap, c, bld) ==
    IF st.len < cap
    THEN [VStore(st, cap, st.len, c) EXCEPT !.len = st.len + 1]
    ELSE IF bld = "checked" THEN [st EXCEPT !.ab = TRUE] ELSE st

\* a pop_back() that leaves the length as it is
VPopBackKeep(st, bld) == st

\* pop_back()
VPopBackOp(st, bld) ==
    IF st.len > 0
    THEN [st EXCEPT !.len = st.len - 1]
    ELSE IF bld = "checked" THEN [st EXCEPT !.ab = TRUE] ELSE st

\* clear()
VClearOp(st) == [st EXCEPT !.len = 0]

\* the Vector objects handed to this one for comparison: other capacities,
\* any length, any values in all their slots
VOtherCaps == {VCapacity - 1, VCapacity, VCapacity + 1} \ {0}
ArgElems == {0, 1, MaxElem}
VectorStates(cap) ==
    {[cap |-> cap, len |-> len, buf |-> buf] :
        len \in 0..cap, buf \in [0..(cap - 1) -> ArgElems]}
OtherVectors == UNION {VectorStates(cap) : cap \in VOtherCaps}

\* equality that compares the slots both stores have
VEqualSlots(st, t) ==
    /\ st.len = t.len
    /\ \A i \in (DOMAIN st.buf) \cap (DOMAIN t.buf) : st.buf[i] = t.buf[i]
\* operator==(const S& s): std::equal(begin(), end(), std::begin(s), std::end(s))
VEqualRange(st, t) ==
    /\ st.len = t.len
    /\ \A i \in 0..(st.len - 1) : st.buf[i] = t.buf[i]
\* operator!=(const S& s): !operator==(s)
VNotEqualRange(st, t) == ~VEqualRange(st, t)

\* resize: the entry check that lets every count pass
VResizeEntryOpen(count, cap, bld) == FALSE
\* resize: assert(count <= Capacity) fails
VResizeEntryFails(count, cap, bld) == bld = "checked" /\ ~(count <= cap)

\* resize that never shortens
VShrunkNever(len, count) == len
\* resize: if (count < len_) len_ = count;
VShrunk(len, count) == IF count < len THEN count ELSE len

\* resize(count, fill_value) as a whole, for count <= cap (for a larger count
\* the loop of an unchecked build does not end)
RECURSIVE VGrowLoop(_, _, _, _, _)
VGrowLoop(st, cap, count, fill, bld) ==
    IF count > st.len /\ ~st.ab
    THEN VGrowLoop(VPushBackOp(st, cap, fill, bld), cap, count, fill, bld)
    ELSE st
VResizeOp(st, cap, count, fill, bld) ==
    IF VResizeEntryFails(count, cap, bld) THEN [st EXCEPT !.ab = TRUE]
    ELSE LET r == IF count < st.len
                  THEN [st EXCEPT !.len = VShrunk(st.len, count)]
                  ELSE VGrowLoop(st, cap, count, fill, bld)
         IN  [r EXCEPT !.ab = r.ab \/ (bld = "checked" /\ r.len # count)]

\* for (const auto& v : values) push_back(v);   also std::copy into a
\* back_inserter (append).  A failed assert ends the program at once
RECURSIVE VPushAll(_, _, _, _, _)
VPushAll(st, cap, values, k, bld) ==
    IF k > Len(values) \/ st.ab THEN st
    ELSE VPushAll(VPushBackOp(st, cap, values[k], bld), cap, values, k + 1, bld)

\* Vector(InputIterator begin, end) copying the whole range
RECURSIVE VRangeLoopAll(_, _, _, _)
VRangeLoopAll(st, cap, r, k) ==
    IF k < Len(r)
    THEN VRangeLoopAll([VStore(st, cap, st.len, r[k + 1]) EXCEPT !.len = st.len + 1],
                       cap, r, k + 1)
    ELSE st
\* Vector(InputIterator begin, end)
RECURSIVE VRangeLoop(_, _, _, _)
VRangeLoop(st, cap, r, k) ==
    IF k < Len(r) /\ st.len < cap
    THEN VRangeLoop([VStore(st, cap, st.len, r[k + 1]) EXCEPT !.len = st.len + 1],
                    cap, r, k + 1)
    ELSE st

\* Vector(count, value): while (count --> 0) push_back(value);
RECURSIVE VFillLoop(_, _, _, _, _)
VFillLoop(st, cap, count, value, bld) ==
    IF count > 0 /\ ~st.ab
    THEN VFillLoop(VPushBackOp(st, cap, value, bld), cap, count - 1, value, bld)
    ELSE st

\* a back() that refers to the slot behind the last element
VBackRefPast(len, bld) ==
    IF len > 0 THEN len
    ELSE IF bld = "checked" THEN -1 ELSE 0

\* the slot back() refers to; -1: assert(false) fired
VBackRef(len, bld) ==
    IF len > 0 THEN len - 1
    ELSE IF bld = "checked" THEN -1 ELSE 0

\* the slot operator[](index) refers to; -1: assert(false) fired
VIndexRef(len, index, bld) ==
    IF index < len THEN index
    ELSE IF bld = "checked" THEN -1 ELSE VBackRef(len, bld)

\* the store of a new Vector: buf_ is not initialized, every slot holds an
\* arbitrary value until it is written
VBlank == [len |-> 0, buf |-> [i \in 0..(VCapacity - 1) |-> 0], ab |-> FALSE, oob |-> FALSE]
VFresh(st) ==
    {[st EXCEPT !.buf = [i \in 0..(VCapacity - 1) |-> IF i < st.len THEN st.buf[i] ELSE tail[i]]] :
        tail \in [st.len..(VCapacity - 1) -> Elems]}

Vec == [len |-> vlen_, buf |-> vbuf_, ab |-> aborted, oob |-> oob]

----------------------------------------------------------------------------
(* convertIntToString<Radix>(T number): the class Container it returns *)

\* bool: one value bit, unsigned
Bool == [signed |-> FALSE, bits |-> 1]

\* the integral types T the conversion is instantiated with: std::int8_t,
\* std::uint8_t, std::int16_t, std::uint16_t and bool.  Operands of these types are
\* promoted to int before % and /, which the unbounded integers here stand for;
\* the casts T(...) and std::int8_t(...) are Wrap
IntTypes == {[signed |-> s, bits |-> b] : s \in BOOLEAN, b \in {8, 16}} \cup {Bool}

TypeMin(t) == IF t.signed THEN -(2 ^ (t.bits - 1)) ELSE 0
TypeMax(t) == IF t.signed THEN 2 ^ (t.bits - 1) - 1 ELSE 2 ^ t.bits - 1

\* the arguments: every value of bool and of the 8-bit types; of the 16-bit
\* types the values at and next to the ends of the range, around zero and
\* around the powers of 10, 36 and 37
Values(t) ==
    IF t.bits <= 8 THEN TypeMin(t)..TypeMax(t)
    ELSE {v \in {TypeMin(t), TypeMin(t) + 1, -1369, -1000, -37, -1, 0, 1, 36, 37, 999,
                 1000, 1368, 1369, TypeMax(t) - 1, TypeMax(t)} :
            TypeMin(t) <= v /\ v <= TypeMax(t)}

\* conversion of an int to the type t: two's complement; to bool, v != 0
Wrap(v, t) ==
    IF t = Bool THEN (IF v = 0 THEN 0 ELSE 1)
    ELSE IF t.signed
    THEN ((v + 2 ^ (t.bits - 1)) % (2 ^ t.bits)) - 2 ^ (t.bits - 1)
    ELSE v % (2 ^ t.bits)

Int8 == [signed |-> TRUE, bits |-> 8]
UInt16 == [signed |-> FALSE, bits |-> 16]

\* a / b and a % b of C++: the quotient is truncated towards zero and the
\* remainder has the sign of the dividend
CQuot(a, b) ==
    LET q == (IF a < 0 THEN -a ELSE a) \div (IF b < 0 THEN -b ELSE b)
    IN  IF (a < 0) = (b < 0) THEN q ELSE -q
CRem(a, b) == a - b * CQuot(a, b)

\* std::numeric_limits<T>::digits and ::digits10
NumericDigits(t) == IF t.signed THEN t.bits - 1 ELSE t.bits
RECURSIVE FloorLog10(_)
FloorLog10(n) == IF n < 10 THEN 0 ELSE 1 + FloorLog10(n \div 10)
NumericDigits10(t) == FloorLog10(2 ^ NumericDigits(t))

\* MaxChars without the character of the sign
MaxCharsNoSign(t, radix) ==
    Wrap((IF radix >= 10 THEN NumericDigits10(t) ELSE NumericDigits(t)) + 1, UInt16)
MaxCharsOf(t, radix) ==
    Wrap((IF radix >= 10 THEN NumericDigits10(t) ELSE NumericDigits(t)) + 1 +
         (IF t.signed THEN 1 ELSE 0), UInt16)
MaxChars == MaxCharsOf(T, Radix)

\* constexpr char Alphabet[] = "0123456789abcdefghijklmnopqrstuvwxyz": the
\* character codes, the terminator of the literal included
Alphabet ==
    <<48, 49, 50, 51, 52, 53, 54, 55, 56, 57,
      97, 98, 99, 100, 101, 102, 103, 104, 105, 106, 107, 108, 109,
      110, 111, 112, 113, 114, 115, 116, 117, 118, 119, 120, 121, 122,
      NUL>>
\* sizeof(Alphabet) / sizeof(Alphabet[0])
AlphabetSize == Len(Alphabet)
Minus == 45

\* the values of the template parameter std::uint8_t Radix that pass both
\* static_asserts
AcceptedRadices == {r \in 0..255 : r >= 1 /\ r <= AlphabetSize}

\* the index into Alphabet for the digit of x, taking the remainder as
\* non-negative for a negative x
ResidualFloor(v, radix, t) == v % radix
\* the index into Alphabet for the lowest digit of x
Residual(v, radix, t) ==
    IF t.signed
    THEN LET residual == Wrap(CRem(v, radix), Int8)
         IN  IF residual < 0 THEN Wrap(-residual, Int8) ELSE residual
    ELSE CRem(v, radix)

\* x after one iteration of the do-while loop
NextX(v, radix, t) ==
    IF t.signed
    THEN Wrap(IF v < 0 THEN -CQuot(v, -radix) ELSE CQuot(v, radix), t)
    ELSE Wrap(CQuot(v, radix), t)

\* c_str(): the characters from storage_[offset_] up to the first terminator
RECURSIVE ConvScan(_, _, _)
ConvScan(store, max, i) ==
    IF i > max THEN <<>>
    ELSE IF store[i] = NUL THEN <<>>
    ELSE <<store[i]>> \o ConvScan(store, max, i + 1)
ConvCStr == ConvScan(storage_, MaxChars, offset_)
\* length()
ConvLength == Wrap(MaxChars - offset_, UInt16)

\* the converter is not in use
ConvIdle ==
    /\ T = Int8 /\ Radix = 10 /\ x = 0 /\ negative = FALSE
    /\ offset_ = 0 /\ storage_ = <<>>

----------------------------------------------------------------------------
(* Initial states: the String right after one of its constructors *)

Fixed ==
    /\ pc = "done"
    /\ rsz = 0 /\ rfill = 0 /\ steps = 0
    /\ hist = <<>>
    /\ ConvIdle

VecIdle ==
    /\ aborted = FALSE
    /\ vlen_ = 0
    /\ vbuf_ = [i \in 0..(VCapacity - 1) |-> 0]
    /\ oob = FALSE

InitDefault ==
    \E r \in Fresh(Constructed) :
        /\ len_ = r.len /\ buf_ = r.buf
        /\ op = OpRec("ctor", 0, FALSE)

InitText ==
    \E p \in Texts :
        \E r \in Fresh(AppendLoop([len |-> 0, buf |-> Blank], Capacity, p, 0)) :
            /\ len_ = r.len /\ buf_ = r.buf
            /\ op = OpRec("ctor_text", p, FALSE)

InitRange ==
    \E p \in Ranges :
        \E r \in Fresh(RangeLoop([len |-> 0, buf |-> Blank], Capacity, p, 0)) :
            /\ len_ = r.len /\ buf_ = r.buf
            /\ op = OpRec("ctor_range", p, FALSE)

InitString ==
    \E t \in OtherStrings :
        \E r \in CopyConstructed(Capacity, t) :
            /\ len_ = r.len /\ buf_ = r.buf
            /\ op = OpRec("ctor_string", t, FALSE)

\* String asserts only in back() and operator[] at invalid positions, which
\* the write actions below do not pass: its behaviour here is the same in
\* both builds
Init ==
    /\ obj = "string"
    /\ build = "checked"
    /\ Fixed /\ VecIdle
    /\ tracking = FALSE /\ macros = NoMacros
    /\ (InitDefault \/ InitText \/ InitRange \/ InitString)

----------------------------------------------------------------------------
(* String operations *)

Frame == UNCHANGED <<build, aborted, resizeVars, tracking, obj, macros, convVars, vecVars>>

Returned(name, arg, res) ==
    /\ op' = OpRec(name, arg, res)
    /\ pc' = "done"

Becomes(r) == len_' = r.len /\ buf_' = r.buf

\* the caller moves on: the arguments and the result of the last call go out of scope
Return ==
    /\ obj = "string" /\ pc = "done" /\ ~aborted
    /\ pc' = "idle"
    /\ op' = OpRec("none", 0, FALSE)
    /\ UNCHANGED <<strVars, hist>>
    /\ Frame

AppendText ==
    /\ obj = "string" /\ pc = "idle"
    /\ \E p \in Texts :
        /\ tracking => Len(hist) + Len(p) <= MaxHist
        /\ Becomes(AppendLoop(Str, Capacity, p, 0))
        /\ hist' = IF tracking THEN hist \o p ELSE hist
        /\ Returned("append_text", p, FALSE)
        /\ Frame

AppendChar ==
    /\ obj = "string" /\ pc = "idle"
    /\ \E c \in Chars :
        /\ tracking => Len(hist) + 1 <= MaxHist
        /\ Becomes(PushBackOp(Str, Capacity, c))
        /\ hist' = IF tracking THEN Append(hist, c) ELSE hist
        /\ Returned("append_char", c, FALSE)
        /\ Frame

Clear ==
    /\ obj = "string" /\ pc = "idle"
    /\ Becomes(ClearOp(Str))
    /\ hist' = <<>>
    /\ Returned("clear", 0, FALSE)
    /\ Frame

PushBack ==
    /\ obj = "string" /\ pc = "idle"
    /\ \E c \in Chars :
        /\ Becomes(PushBackOp(Str, Capacity, c))
        /\ Returned("push_back", c, FALSE)
        /\ UNCHANGED hist
        /\ Frame

PopBack ==
    /\ obj = "string" /\ pc = "idle"
    /\ Becomes(PopBackOp(Str))
    /\ Returned("pop_back", 0, FALSE)
    /\ UNCHANGED hist
    /\ Frame

\* resize(sz, c) is entered; its two loops run one iteration per step.  res of
\* the call's record is the content the String had when the call was made
ResizeCall ==
    /\ obj = "string" /\ pc = "idle"
    /\ \E sz \in 0..(Capacity + 1), c \in Chars :
        /\ pc' = "resize"
        /\ rsz' = sz /\ rfill' = c /\ steps' = 0
        /\ op' = OpRec("resize_call", <<sz, c>>, Content(len_, buf_))
        /\ UNCHANGED <<strVars, hist, build, aborted, tracking, obj, macros, convVars, vecVars>>

\* while (len_ < sz) push_back(c);
ResizeGrow ==
    /\ obj = "string" /\ pc = "resize"
    /\ len_ < rsz
    /\ Becomes(PushBackOp(Str, Capacity, rfill))
    /\ steps' = Min(steps + 1, MaxSteps)
    /\ UNCHANGED <<pc, op, rsz, rfill, hist, build, aborted, tracking, obj, macros, convVars, vecVars>>

\* while (len_ > sz) pop_back();
ResizeShrink ==
    /\ obj = "string" /\ pc = "resize"
    /\ ~(len_ < rsz)
    /\ len_ > rsz
    /\ Becomes(PopBackOp(Str))
    /\ steps' = Min(steps + 1, MaxSteps)
    /\ UNCHANGED <<pc, op, rsz, rfill, hist, build, aborted, tracking, obj, macros, convVars, vecVars>>

ResizeReturn ==
    /\ obj = "string" /\ pc = "resize"
    /\ ~(len_ < rsz)
    /\ ~(len_ > rsz)
    /\ Returned("resize", <<rsz, rfill>>, op.res)
    /\ rsz' = 0 /\ rfill' = 0 /\ steps' = 0
    /\ UNCHANGED <<strVars, hist, build, aborted, tracking, obj, macros, convVars, vecVars>>

\* s += t, t another object
AppendString ==
    /\ obj = "string" /\ pc = "idle"
    /\ \E t \in OtherStrings :
        /\ Becomes(AppendStringOp(Str, Capacity, t))
        /\ Returned("append_string", t, FALSE)
        /\ UNCHANGED hist
        /\ Frame

\* s += s
AppendSelf ==
    /\ obj = "string" /\ pc = "idle"
    /\ Becomes(AppendLoopSelf(Str, Capacity, 0))
    /\ Returned("append_self", 0, FALSE)
    /\ UNCHANGED hist
    /\ Frame

\* s = "text": clear(); (*this) += text
AssignText ==
    /\ obj = "string" /\ pc = "idle"
    /\ \E p \in Texts :
        /\ Becomes(AppendLoop(ClearOp(Str), Capacity, p, 0))
        /\ Returned("assign_text", p, FALSE)
        /\ UNCHANGED hist
        /\ Frame

\* s = t
AssignString ==
    /\ obj = "string" /\ pc = "idle"
    /\ \E t \in OtherStrings :
        /\ Becomes(AssignStringOp(Str, Capacity, t))
        /\ Returned("assign_string", t, FALSE)
        /\ UNCHANGED hist
        /\ Frame

\* s[index] = c at a valid position
WriteIndex ==
    /\ obj = "string" /\ pc = "idle"
    /\ \E index \in 0..(Capacity - 1), c \in Chars :
        /\ index < len_
        /\ buf_' = [buf_ EXCEPT ![IndexRef(len_, index, build)] = c]
        /\ Returned("write_index", <<index, c>>, FALSE)
        /\ UNCHANGED <<len_, hist>>
        /\ Frame

\* s.front() = c on a non-empty String
WriteFront ==
    /\ obj = "string" /\ pc = "idle"
    /\ \E c \in Chars :
        /\ len_ > 0
        /\ buf_' = [buf_ EXCEPT ![IndexRef(len_, 0, build)] = c]
        /\ Returned("write_front", c, FALSE)
        /\ UNCHANGED <<len_, hist>>
        /\ Frame

\* s.back() = c on a non-empty String
WriteBack ==
    /\ obj = "string" /\ pc = "idle"
    /\ \E c \in Chars :
        /\ len_ > 0
        /\ buf_' = [buf_ EXCEPT ![BackRef(len_, build)] = c]
        /\ Returned("write_back", c, FALSE)
        /\ UNCHANGED <<len_, hist>>
        /\ Frame

\* s == t and s != t are evaluated
CompareString ==
    /\ obj = "string" /\ pc = "idle"
    /\ \E t \in OtherStrings :
        /\ Returned("compare_string", t,
                    [eq |-> EqualRange(Str, t), ne |-> NotEqualRange(Str, t)])
        /\ UNCHANGED <<strVars, hist>>
        /\ Frame

\* s == "text", s != "text", "text" == s and "text" != s are evaluated
CompareText ==
    /\ obj = "string" /\ pc = "idle"
    /\ \E p \in Texts :
        /\ Returned("compare_text", p,
                    [eq |-> EqualText(Str, Capacity, p),
                     ne |-> NotEqualText(Str, Capacity, p),
                     req |-> TextEqual(p, Str, Capacity),
                     rne |-> TextNotEqual(p, Str, Capacity)])
        /\ UNCHANGED <<strVars, hist>>
        /\ Frame

Next ==
    \/ Return
    \/ AppendText \/ AppendChar \/ Clear
    \/ PushBack \/ PopBack
    \/ ResizeCall \/ ResizeGrow \/ ResizeShrink \/ ResizeReturn
    \/ AppendString \/ AppendSelf \/ AssignText \/ AssignString
    \/ WriteIndex \/ WriteFront \/ WriteBack
    \/ CompareString \/ CompareText

Spec == Init /\ [][Next]_vars

----------------------------------------------------------------------------
(* Concatenation: s + t and s + "text", over every String a constructor yields *)

\* s + t, t another object
ConcatWithString ==
    /\ obj = "string" /\ pc = "idle"
    /\ \E t \in OtherStrings :
        /\ Returned("concat_string", t, ConcatStrings(Str, Capacity, t))
        /\ UNCHANGED <<strVars, hist>>
        /\ Frame

\* s + "text"
ConcatWithText ==
    /\ obj = "string" /\ pc = "idle"
    /\ \E p \in Texts :
        /\ Returned("concat_text", p, ConcatText(Str, Capacity, p))
        /\ UNCHANGED <<strVars, hist>>
        /\ Frame

NextConcat == Return \/ ConcatWithString \/ ConcatWithText

SpecConcat == Init /\ [][NextConcat]_vars

----------------------------------------------------------------------------
(* Appends alone, from an empty String *)

InitAppend ==
    /\ obj = "string"
    /\ build = "checked"
    /\ Fixed /\ VecIdle
    /\ tracking = TRUE /\ macros = NoMacros
    /\ InitDefault

NextAppend == Return \/ AppendText \/ AppendChar \/ Clear

SpecAppend == InitAppend /\ [][NextAppend]_vars

----------------------------------------------------------------------------
(* Vector: initial states, the Vector right after one of its constructors *)

StrIdle ==
    /\ len_ = 0
    /\ buf_ = Blank
    /\ tracking = FALSE

VIs(r) == vlen_ = r.len /\ vbuf_ = r.buf /\ aborted = r.ab /\ oob = r.oob

VInitDefault ==
    \E r \in VFresh(VBlank) :
        /\ VIs(r)
        /\ op = OpRec("v_ctor", 0, FALSE)

VInitList ==
    \E values \in ElemSeqs :
        \E r \in VFresh(VPushAll(VBlank, VCapacity, values, 1, build)) :
            /\ VIs(r)
            /\ op = OpRec("v_ctor_list", values, FALSE)

VInitRange ==
    \E values \in ElemSeqs :
        \E r \in VFresh(VRangeLoop(VBlank, VCapacity, values, 0)) :
            /\ VIs(r)
            /\ op = OpRec("v_ctor_range", values, FALSE)

VInitFill ==
    \E count \in 0..(VCapacity + 1), value \in Elems :
        \E r \in VFresh(VFillLoop(VBlank, VCapacity, count, value, build)) :
            /\ VIs(r)
            /\ op = OpRec("v_ctor_fill", <<count, value>>, FALSE)

InitVec ==
    /\ obj = "vector"
    /\ build \in Builds
    /\ macros = NoMacros
    /\ Fixed /\ StrIdle
    /\ (VInitDefault \/ VInitList \/ VInitRange \/ VInitFill)

----------------------------------------------------------------------------
(* Vector operations *)

VFrame == UNCHANGED <<build, resizeVars, tracking, obj, macros, convVars, hist, strVars>>

VBecomes(r) == vlen_' = r.len /\ vbuf_' = r.buf /\ aborted' = r.ab /\ oob' = r.oob

VReturn ==
    /\ obj = "vector" /\ pc = "done" /\ ~aborted
    /\ pc' = "idle"
    /\ op' = OpRec("none", 0, FALSE)
    /\ UNCHANGED <<vecVars, aborted>>
    /\ VFrame

VPushBack ==
    /\ obj = "vector" /\ pc = "idle"
    /\ \E c \in Elems :
        /\ VBecomes(VPushBackOp(Vec, VCapacity, c, build))
        /\ Returned("v_push_back", c, FALSE)
        /\ VFrame

VPopBack ==
    /\ obj = "vector" /\ pc = "idle"
    /\ VBecomes(VPopBackOp(Vec, build))
    /\ Returned("v_pop_back", 0, FALSE)
    /\ VFrame

VClear ==
    /\ obj = "vector" /\ pc = "idle"
    /\ VBecomes(VClearOp(Vec))
    /\ Returned("v_clear", 0, FALSE)
    /\ VFrame

\* append(other)
VAppend ==
    /\ obj = "vector" /\ pc = "idle"
    /\ \E other \in ElemSeqs :
        /\ VBecomes(VPushAll(Vec, VCapacity, other, 1, build))
        /\ Returned("v_append", other, FALSE)
        /\ VFrame

\* resize(count, fill_value) is entered: assert(count <= Capacity); the
\* shrinking branch is done at once, the growing loop runs one iteration per
\* step.  res of the call's record is the content the Vector had when the call
\* was made, the third component of arg the store it had then
VResizeCall ==
    /\ obj = "vector" /\ pc = "idle"
    /\ \E count \in 0..(VCapacity + 1), fill \in Elems :
        IF VResizeEntryFails(count, VCapacity, build)
        THEN /\ aborted' = TRUE
             /\ Returned("v_resize", <<count, fill, vbuf_>>, VContent(vlen_, vbuf_))
             /\ UNCHANGED vecVars
             /\ VFrame
        ELSE /\ pc' = "vresize"
             /\ rsz' = count /\ rfill' = fill /\ steps' = 0
             /\ vlen_' = VShrunk(vlen_, count)
             /\ op' = OpRec("v_resize_call", <<count, fill, vbuf_>>, VContent(vlen_, vbuf_))
             /\ UNCHANGED <<vbuf_, oob, aborted, build, tracking, obj, macros, convVars, hist, strVars>>

\* while (count > len_) push_back(fill_value);
VResizeGrow ==
    /\ obj = "vector" /\ pc = "vresize" /\ ~aborted
    /\ rsz > vlen_
    /\ VBecomes(VPushBackOp(Vec, VCapacity, rfill, build))
    /\ steps' = Min(steps + 1, MaxSteps)
    /\ UNCHANGED <<pc, op, rsz, rfill, build, tracking, obj, macros, convVars, hist, strVars>>

\* assert(size() == count); return
VResizeReturn ==
    /\ obj = "vector" /\ pc = "vresize" /\ ~aborted
    /\ ~(rsz > vlen_)
    /\ aborted' = (build = "checked" /\ vlen_ # rsz)
    /\ Returned("v_resize", op.arg, op.res)
    /\ rsz' = 0 /\ rfill' = 0 /\ steps' = 0
    /\ UNCHANGED <<vecVars, build, tracking, obj, macros, convVars, hist, strVars>>

\* v[index] = c
VWriteIndex ==
    /\ obj = "vector" /\ pc = "idle"
    /\ \E index \in 0..VCapacity, c \in Elems :
        LET r == VIndexRef(vlen_, index, build)
        IN  /\ IF r < 0
               THEN aborted' = TRUE /\ UNCHANGED vecVars
               ELSE VBecomes(VStore(Vec, VCapacity, r, c))
            /\ Returned("v_write_index", <<index, c>>, FALSE)
            /\ VFrame

NextVec ==
    \/ VReturn
    \/ VPushBack \/ VPopBack \/ VClear \/ VAppend
    \/ VResizeCall \/ VResizeGrow \/ VResizeReturn
    \/ VWriteIndex

SpecVec == InitVec /\ [][NextVec]_vars

----------------------------------------------------------------------------
(* Vector comparison, over every Vector a constructor yields *)

\* v == w, v != w, w == v and w != v are evaluated
VCompare ==
    /\ obj = "vector" /\ pc = "idle"
    /\ \E w \in OtherVectors :
        /\ Returned("v_compare", w,
                    [eq |-> VEqualRange(Vec, w), ne |-> VNotEqualRange(Vec, w),
                     req |-> VEqualRange(w, Vec), rne |-> VNotEqualRange(w, Vec)])
        /\ UNCHANGED <<vecVars, aborted>>
        /\ VFrame

NextVecCompare == VReturn \/ VCompare

SpecVecCompare == InitVec /\ [][NextVecCompare]_vars

----------------------------------------------------------------------------
(* Either class: the caller drives a String or a Vector *)

InitBoth == Init \/ InitVec

NextBoth == Next \/ NextVec

SpecBoth == InitBoth /\ [][NextBoth]_vars

----------------------------------------------------------------------------
(* Element access: operator[], front() and back() of both classes, called    *)
(* at every position, in both builds.  res is the index of the slot of buf_  *)
(* the returned reference designates, -1 when the assert failed first        *)

InitAccess ==
    \/ /\ obj = "string"
       /\ build \in Builds
       /\ Fixed /\ VecIdle
       /\ tracking = FALSE /\ macros = NoMacros
       /\ (InitDefault \/ InitText \/ InitRange \/ InitString)
    \/ InitVec

AccessFrame ==
    UNCHANGED <<build, resizeVars, tracking, obj, macros, convVars, hist, strVars, vecVars>>

Accessed(name, arg, r) ==
    /\ aborted' = (r < 0)
    /\ Returned(name, arg, r)
    /\ AccessFrame

\* s[index]
AccessIndex ==
    /\ obj = "string" /\ pc = "idle"
    /\ \E index \in 0..(Capacity + 1) :
        Accessed("index", index, IndexRef(len_, index, build))

\* s.front()
AccessFront ==
    /\ obj = "string" /\ pc = "idle"
    /\ Accessed("front", 0, IndexRef(len_, 0, build))

\* s.back()
AccessBack ==
    /\ obj = "string" /\ pc = "idle"
    /\ Accessed("back", 0, BackRef(len_, build))

\* v[index]
VAccessIndex ==
    /\ obj = "vector" /\ pc = "idle"
    /\ \E index \in 0..(VCapacity + 1) :
        Accessed("v_index", index, VIndexRef(vlen_, index, build))

\* v.front()
VAccessFront ==
    /\ obj = "vector" /\ pc = "idle"
    /\ Accessed("v_front", 0, VIndexRef(vlen_, 0, build))

\* v.back()
VAccessBack ==
    /\ obj = "vector" /\ pc = "idle"
    /\ Accessed("v_back", 0, VBackRef(vlen_, build))

NextAccess ==
    \/ Return \/ VReturn
    \/ AccessIndex \/ AccessFront \/ AccessBack
    \/ VAccessIndex \/ VAccessFront \/ VAccessBack

SpecAccess == InitAccess /\ [][NextAccess]_vars

----------------------------------------------------------------------------
(* convertIntToString<Radix>(number): Container::Container(T x) step by step *)

\* the constructor has initialized offset_ and storage_ and computed negative
InitConv ==
    /\ obj = "converter"
    /\ build \in Builds
    /\ macros = NoMacros
    /\ pc = "conv"
    /\ rsz = 0 /\ rfill = 0 /\ steps = 0
    /\ hist = <<>>
    /\ StrIdle /\ VecIdle
    /\ \E t \in IntTypes, r \in AcceptedRadices :
        \E number \in Values(t) :
            /\ T = t /\ Radix = r /\ x = number
            /\ negative = (t.signed /\ number < 0)
            /\ offset_ = MaxCharsOf(t, r)
            /\ storage_ = [i \in 0..MaxCharsOf(t, r) |-> NUL]
            /\ op = OpRec("convertIntToString", number, FALSE)

ConvFrame ==
    UNCHANGED <<build, resizeVars, tracking, obj, macros, T, Radix, negative, strVars, vlen_, vbuf_>>

\* assert(offset_ > 0) fails: a checked build aborts; an unchecked build goes
\* on to --offset_, which wraps, and stores outside storage_, after which
\* nothing is known about the program
ConvFault ==
    /\ IF build = "checked"
       THEN aborted' = TRUE /\ UNCHANGED <<oob, offset_>>
       ELSE oob' = TRUE /\ offset_' = Wrap(offset_ - 1, UInt16) /\ UNCHANGED aborted
    /\ pc' = "done"
    /\ UNCHANGED <<x, storage_, hist, op>>

\* one iteration of do { ... } while (x != 0)
ConvDigit ==
    /\ pc = "conv"
    /\ IF ~(offset_ > 0)
       THEN ConvFault
       ELSE /\ storage_' = [storage_ EXCEPT ![offset_ - 1] = Alphabet[Residual(x, Radix, T) + 1]]
            /\ hist' = Append(hist, Alphabet[Residual(x, Radix, T) + 1])
            /\ offset_' = offset_ - 1
            /\ x' = NextX(x, Radix, T)
            /\ pc' = IF NextX(x, Radix, T) # 0 THEN "conv" ELSE "conv_sign"
            /\ UNCHANGED <<aborted, oob, op>>
    /\ ConvFrame

\* if (negative) { assert(offset_ > 0); storage_[--offset_] = '-'; }
\* assert(offset_ < MaxChars);
ConvSign ==
    /\ pc = "conv_sign"
    /\ IF negative /\ ~(offset_ > 0)
       THEN ConvFault
       ELSE LET off == IF negative THEN offset_ - 1 ELSE offset_
            IN  /\ storage_' = IF negative THEN [storage_ EXCEPT ![off] = Minus] ELSE storage_
                /\ hist' = IF negative THEN Append(hist, Minus) ELSE hist
                /\ offset_' = off
                /\ aborted' = (build = "checked" /\ ~(off < MaxChars))
                /\ pc' = "done"
                /\ UNCHANGED <<x, oob, op>>
    /\ ConvFrame

NextConv == ConvDigit \/ ConvSign

SpecConv == InitConv /\ [][NextConv]_vars

----------------------------------------------------------------------------
(* Properties of String *)

\* C1: after any sequence of String operations used within their
\* preconditions, 0 <= len_ <= Capacity and buf_[len_] is the terminator.
StringInv ==
    /\ len_ \in 0..Capacity
    /\ buf_ \in [0..Capacity -> Chars]
    /\ buf_[len_] = NUL

\* a push_back has just filled the String up to its capacity
StringInvWitness ==
    /\ pc = "done" /\ op.name = "push_back" /\ op.arg # NUL
    /\ len_ = Capacity

\* C2: starting from an empty String, after any sequence of appends of raw
\* texts and single characters the content is the first min(Capacity, total)
\* characters of everything appended, in order; appends to a full String
\* change nothing.
AppendLaw ==
    tracking => Content(len_, buf_) = Take(hist, Capacity)

\* a non-empty text has just been appended and more than Capacity characters
\* have been appended in total
AppendLawWitness ==
    /\ tracking /\ pc = "done" /\ op.name = "append_text" /\ Len(op.arg) > 0
    /\ Len(hist) > Capacity /\ len_ = Capacity

\* C3: after s += t the content of s is its content before the call followed
\* by the content of t before the call, cut to Capacity characters, also when
\* t is the very same object as s: s += s appends the old content to itself
\* (the old content exactly twice when 2 * len_ <= Capacity).
AppendSelfLaw ==
    [][(pc = "idle" /\ pc' = "done" /\ op'.name = "append_self") =>
          LET before == Content(len_, buf_)
          IN  Content(len_', buf_') = Take(before \o before, Capacity)]_vars

\* C4: in every reachable state the view c_str() gives, up to the first
\* terminator of the store, has exactly length() characters.
CStrDenotesContent == CStrLen(buf_, Capacity) = len_

\* C5: a String<Capacity> constructed from a String<M> has length
\* min(len(other), Capacity) and holds the first that many characters of the
\* other's content.
CopyConstructLaw ==
    (pc = "done" /\ op.name = "ctor_string") =>
        /\ len_ = Min(op.arg.len, Capacity)
        /\ Content(len_, buf_) = Take(Content(op.arg.len, op.arg.buf), Capacity)

\* C6: == is true exactly when both sides have the same length and the same
\* character at every index below it, against another String and against a raw
\* text, in both operand orders; != is the negation of ==.
EqualityExact ==
    /\ (pc = "done" /\ op.name = "compare_string") =>
           /\ op.res.eq <=> (Content(len_, buf_) = Content(op.arg.len, op.arg.buf))
           /\ op.res.ne <=> ~op.res.eq
    /\ (pc = "done" /\ op.name = "compare_text") =>
           /\ op.res.eq <=> (Content(len_, buf_) = op.arg)
           /\ op.res.req <=> (Content(len_, buf_) = op.arg)
           /\ op.res.ne <=> ~op.res.eq
           /\ op.res.rne <=> ~op.res.req

\* C7: resize(newLength) with newLength > Capacity returns after at most
\* Capacity loop iterations.
ResizeBounded ==
    (pc = "resize" /\ rsz > Capacity) => steps <= Capacity

----------------------------------------------------------------------------
(* Properties of Vector *)

\* C8: len_ <= Capacity in every state, in checked and unchecked builds, and
\* no element is ever stored at an index >= Capacity.
VectorInv ==
    /\ vlen_ \in 0..VCapacity
    /\ ~oob

\* an unchecked build has constructed the Vector from a list longer than its
\* capacity
VectorInvWitness ==
    /\ pc = "done" /\ build = "unchecked"
    /\ op.name = "v_ctor_list" /\ Len(op.arg) > VCapacity
    /\ vlen_ = VCapacity

\* C9: push_back(v) with len_ < Capacity stores v at index len_, increments
\* len_ and leaves the elements below unchanged; on a full Vector a checked
\* build aborts and an unchecked build returns with len_ and the elements
\* unchanged.
PushBackLaw ==
    [][(pc = "idle" /\ pc' = "done" /\ op'.name = "v_push_back") =>
          IF vlen_ < VCapacity
          THEN /\ ~aborted'
               /\ vlen_' = vlen_ + 1
               /\ vbuf_'[vlen_] = op'.arg
               /\ \A i \in 0..(vlen_ - 1) : vbuf_'[i] = vbuf_[i]
          ELSE IF build = "checked"
               THEN aborted'
               ELSE ~aborted' /\ vlen_' = vlen_ /\ vbuf_' = vbuf_]_vars

\* a checked build has aborted in push_back on a full Vector
PushBackLawWitness ==
    /\ aborted /\ op.name = "v_push_back"
    /\ vlen_ = VCapacity

\* C10: constructing a Vector from a list of values never faults, in either
\* build, and yields the first min(length of the list, Capacity) values.
ListConstructLaw ==
    (pc = "done" /\ op.name = "v_ctor_list") =>
        /\ ~aborted
        /\ vlen_ = Min(Len(op.arg), VCapacity)
        /\ VContent(vlen_, vbuf_) = Take(op.arg, VCapacity)

----------------------------------------------------------------------------
(* Properties of both classes *)

\* C11: in a checked build pop_back on an empty container aborts at once, for
\* Vector and for String alike; on a non-empty container pop_back decrements
\* the length by exactly one and leaves the elements [0, len - 1) unchanged.
PopBackLaw ==
    [][/\ (pc = "idle" /\ pc' = "done" /\ op'.name = "pop_back") =>
              IF len_ = 0
              THEN build = "checked" => aborted'
              ELSE /\ ~aborted'
                   /\ len_' = len_ - 1
                   /\ \A i \in 0..(len_ - 2) : buf_'[i] = buf_[i]
       /\ (pc = "idle" /\ pc' = "done" /\ op'.name = "v_pop_back") =>
              IF vlen_ = 0
              THEN build = "checked" => aborted'
              ELSE /\ ~aborted'
                   /\ vlen_' = vlen_ - 1
                   /\ \A i \in 0..(vlen_ - 2) : vbuf_'[i] = vbuf_[i]]_vars

\* C12: in a checked build, for String and Vector, operator[](i) with
\* i >= length() (i = length() included) and front() and back() on an empty
\* container fail the assert before a reference is returned; operator[](i)
\* with i < length() returns element i, front() element 0 and back() element
\* length() - 1.
AccessLaw ==
    (pc = "done" /\ build = "checked") =>
        /\ op.name = "index" =>
               IF op.arg < len_ THEN ~aborted /\ op.res = op.arg
               ELSE aborted /\ op.res = -1
        /\ op.name = "front" =>
               IF len_ > 0 THEN ~aborted /\ op.res = 0
               ELSE aborted /\ op.res = -1
        /\ op.name = "back" =>
               IF len_ > 0 THEN ~aborted /\ op.res = len_ - 1
               ELSE aborted /\ op.res = -1
        /\ op.name = "v_index" =>
               IF op.arg < vlen_ THEN ~aborted /\ op.res = op.arg
               ELSE aborted /\ op.res = -1
        /\ op.name = "v_front" =>
               IF vlen_ > 0 THEN ~aborted /\ op.res = 0
               ELSE aborted /\ op.res = -1
        /\ op.name = "v_back" =>
               IF vlen_ > 0 THEN ~aborted /\ op.res = vlen_ - 1
               ELSE aborted /\ op.res = -1

\* a checked build has aborted in operator[] called with index = length() on
\* a non-empty String
AccessLawWitness ==
    /\ pc = "done" /\ build = "checked" /\ aborted
    /\ op.name = "index" /\ op.arg = len_ /\ len_ > 0

----------------------------------------------------------------------------
(* Properties of convertIntToString *)

\* the radices the documented contract names
ClaimRadices == 2..36
\* the character of the digit d: '0'..'9', then 'a'..'z'
DigitChar(d) == IF d < 10 THEN 48 + d ELSE 87 + d
DigitChars == {DigitChar(d) : d \in 0..35}
\* the digits of n >= 0 in base r, most significant first, none leading zero
RECURSIVE DigitsOf(_, _)
DigitsOf(n, r) ==
    IF n < r THEN <<DigitChar(n)>>
    ELSE Append(DigitsOf(n \div r, r), DigitChar(n % r))
Canonical(v, r) == IF v < 0 THEN <<Minus>> \o DigitsOf(-v, r) ELSE DigitsOf(v, r)

\* C13: for every value v of a signed or unsigned fixed-width integer type
\* and every radix r in 2..36 the converter yields the canonical text of v: a
\* leading '-' iff v < 0, then the base-r digits of |v|, most significant
\* first, over 0-9a-z, without a leading zero, "0" for 0; also for the minimum
\* of each signed type.
ConvertCanonical ==
    (obj = "converter" /\ pc = "done" /\ Radix \in ClaimRadices) =>
        /\ ~aborted /\ ~oob
        /\ ConvCStr = Canonical(op.arg, Radix)

\* std::int8_t(-128) has been converted in radix 10 to "-128"
ConvertCanonicalWitness ==
    /\ obj = "converter" /\ pc = "done"
    /\ T = Int8 /\ Radix = 10 /\ op.arg = -128
    /\ ConvCStr = <<45, 49, 50, 56>>

\* C14: for every integral type, radix in 2..36 and value, the converter
\* writes at most MaxChars characters, offset_ never goes below 0 (neither
\* assert(offset_ > 0) nor assert(offset_ < MaxChars) fails), the terminator
\* slot storage_[MaxChars] is never overwritten and length() is the number of
\* characters written.
ConvertWithinStorage ==
    (obj = "converter" /\ Radix \in ClaimRadices) =>
        /\ ~aborted /\ ~oob
        /\ offset_ \in 0..MaxChars
        /\ Len(hist) <= MaxChars
        /\ storage_[MaxChars] = NUL
        /\ pc = "done" => ConvLength = Len(hist)

\* std::int8_t(-128) has been converted in radix 2: all MaxChars slots are used
ConvertWithinStorageWitness ==
    /\ obj = "converter" /\ pc = "done"
    /\ T = Int8 /\ Radix = 2 /\ op.arg = -128
    /\ offset_ = 0 /\ Len(hist) = MaxChars

\* C15: every radix the converter accepts at compile time is at most 36, and
\* for every accepted radix each digit written is one of 0-9a-z: the index
\* into the alphabet is in 0..35, never that of the array's terminator.
RadixWithinAlphabet ==
    obj = "converter" =>
        /\ Radix <= 36
        /\ \A i \in 1..Len(hist) : hist[i] \in DigitChars \cup {Minus}

----------------------------------------------------------------------------
(* Laws of both classes *)

\* C16: constructing a String from a raw text or from an input range,
\* assigning a raw text to a String and constructing a Vector from an input
\* range yield, for an input of L elements and capacity N, length min(L, N)
\* and the first min(L, N) elements of the input, without fault.
TruncationLaw ==
    /\ (pc = "done" /\ op.name \in {"ctor_text", "ctor_range", "assign_text"}) =>
           /\ ~aborted
           /\ len_ = Min(Len(op.arg), Capacity)
           /\ Content(len_, buf_) = Take(op.arg, Capacity)
    /\ (pc = "done" /\ op.name = "v_ctor_range") =>
           /\ ~aborted /\ ~oob
           /\ vlen_ = Min(Len(op.arg), VCapacity)
           /\ VContent(vlen_, vbuf_) = Take(op.arg, VCapacity)

\* a text longer than the capacity has been assigned to the String
TruncationLawWitness ==
    /\ pc = "done" /\ op.name = "assign_text"
    /\ Len(op.arg) > Capacity /\ len_ = Capacity

\* C17: a + b of a String<A> and a String<B> is a String of capacity A + B
\* holding the whole content of a followed by the whole content of b; a + r
\* with a raw text r has capacity A and holds the first
\* min(A, len(a) + len(r)) characters of a followed by r; the operands are
\* not modified.
ConcatLaw ==
    [][/\ (pc = "idle" /\ pc' = "done" /\ op'.name = "concat_string") =>
              /\ op'.res.cap = Capacity + op'.arg.cap
              /\ op'.res.len = len_ + op'.arg.len
              /\ Content(op'.res.len, op'.res.buf) =
                     Content(len_, buf_) \o Content(op'.arg.len, op'.arg.buf)
              /\ len_' = len_ /\ buf_' = buf_
       /\ (pc = "idle" /\ pc' = "done" /\ op'.name = "concat_text") =>
              /\ op'.res.cap = Capacity
              /\ op'.res.len = Min(Capacity, len_ + Len(op'.arg))
              /\ Content(op'.res.len, op'.res.buf) =
                     Take(Content(len_, buf_) \o op'.arg, Capacity)
              /\ len_' = len_ /\ buf_' = buf_]_vars

\* n copies of the value c
Copies(n, c) == [i \in 1..n |-> c]
\* a String / a Vector holding the content s and nothing else
StringOf(s) ==
    [len |-> Len(s), buf |-> [i \in 0..Capacity |-> IF i < Len(s) THEN s[i + 1] ELSE NUL]]
VectorOf(s) ==
    [len |-> Len(s), buf |-> [i \in 0..(VCapacity - 1) |-> IF i < Len(s) THEN s[i + 1] ELSE 0],
     ab |-> FALSE, oob |-> FALSE]

\* C18: for both classes, any start state, any fill and j <= k <= N,
\* resize(k, fill) followed by resize(j, fill) leaves the same length j and the
\* same content as resize(j, fill) alone; growing appends copies of fill,
\* shrinking keeps the first elements.
ResizeLaw ==
    /\ (pc = "done" /\ op.name = "resize") =>
           LET k == op.arg[1]
               fill == op.arg[2]
               before == op.res
           IN  /\ Content(len_, buf_) =
                      IF k >= Len(before) THEN before \o Copies(k - Len(before), fill)
                      ELSE Take(before, k)
               /\ \A j \in 0..k :
                      LET twice == ResizeOp(Str, Capacity, j, fill)
                          once == ResizeOp(StringOf(before), Capacity, j, fill)
                      IN  /\ twice.len = j /\ once.len = j
                          /\ Content(twice.len, twice.buf) = Content(once.len, once.buf)
    /\ (pc = "done" /\ op.name = "v_resize" /\ op.arg[1] <= VCapacity) =>
           LET k == op.arg[1]
               fill == op.arg[2]
               before == op.res
           IN  /\ ~aborted /\ ~oob
               /\ VContent(vlen_, vbuf_) =
                      IF k >= Len(before) THEN before \o Copies(k - Len(before), fill)
                      ELSE Take(before, k)
               /\ \A j \in 0..k :
                      LET twice == VResizeOp(Vec, VCapacity, j, fill, build)
                          once == VResizeOp(VectorOf(before), VCapacity, j, fill, build)
                      IN  /\ ~twice.ab /\ ~once.ab
                          /\ twice.len = j /\ once.len = j
                          /\ VContent(twice.len, twice.buf) = VContent(once.len, once.buf)

\* resize has grown a String by at least two characters
ResizeLawWitness ==
    /\ pc = "done" /\ op.name = "resize"
    /\ op.arg[1] >= Len(op.res) + 2 /\ len_ = op.arg[1] /\ op.arg[2] # NUL

\* C19: a Vector is equal to another iterable exactly when both have the same
\* length and equal elements at every index below it; the result is the same
\* in both operand orders between two Vectors, != is the negation of ==, and
\* neither depends on the capacities or on the slots at indices >= length.
VectorEqualityExact ==
    (pc = "done" /\ op.name = "v_compare") =>
        /\ op.res.eq <=> (VContent(vlen_, vbuf_) = VContent(op.arg.len, op.arg.buf))
        /\ op.res.req <=> op.res.eq
        /\ op.res.ne <=> ~op.res.eq
        /\ op.res.rne <=> ~op.res.req

\* two non-empty Vectors of different capacities that differ in a slot past
\* their length have compared equal
VectorEqualityExactWitness ==
    /\ pc = "done" /\ op.name = "v_compare" /\ op.res.eq
    /\ vlen_ > 0 /\ op.arg.cap # VCapacity
    /\ \E i \in vlen_..(Min(VCapacity, op.arg.cap) - 1) : vbuf_[i] # op.arg.buf[i]

\* C20: in a checked build Vector::resize(count) with count > N aborts at
\* once: the check fails before the length or any element has changed.
ResizeBeyondCapacityAborts ==
    [][(pc = "idle" /\ build = "checked" /\ op'.name \in {"v_resize", "v_resize_call"}
            /\ op'.arg[1] > VCapacity) =>
          /\ aborted'
          /\ vlen_' = vlen_ /\ vbuf_' = vbuf_]_vars

\* a checked build has aborted at the entry of resize(count), count > N, on a
\* non-empty Vector
ResizeBeyondCapacityAbortsWitness ==
    /\ build = "checked" /\ aborted /\ pc = "done"
    /\ op.name = "v_resize" /\ op.arg[1] > VCapacity
    /\ vlen_ > 0 /\ VContent(vlen_, vbuf_) = op.res

----------------------------------------------------------------------------
(* Further laws of Vector *)

\* C21: append(source) copies the source's elements in order onto the end of
\* the Vector within the remaining capacity r = N - len: exactly
\* min(r, |source|) elements are appended, the first ones of the source, the
\* previous elements are unchanged, and a source longer than r is cut silently,
\* without a fault.
AppendRangeLaw ==
    [][(pc = "idle" /\ pc' = "done" /\ op'.name = "v_append") =>
          LET r == VCapacity - vlen_
          IN  /\ ~aborted'
              /\ vlen_' = vlen_ + Min(r, Len(op'.arg))
              /\ VContent(vlen_', vbuf_') = VContent(vlen_, vbuf_) \o Take(op'.arg, r)]_vars

----------------------------------------------------------------------------
(* comparison.hpp: the comparator.                                          *)
(* The floating-point type T is a binary format with MantBits bits of       *)
(* precision, gradual underflow, signed zeros, infinities and NaN.  A       *)
(* finite value is a whole number of units, one unit being the smallest     *)
(* subnormal; the arithmetic rounds to nearest, ties to even.               *)

MantBits == 5
ExpMax == 8

RECURSIVE Pow2(_)
Pow2(e) == IF e = 0 THEN 1 ELSE 2 * Pow2(e - 1)

\* 1.0 in units
One == Pow2(MantBits + 1)
\* the largest finite magnitude
MaxFinite == (Pow2(MantBits) - 1) * Pow2(ExpMax)

Finite(n) == [cls |-> "finite", neg |-> n < 0, mag |-> IF n < 0 THEN -n ELSE n]
PosInf == [cls |-> "inf", neg |-> FALSE, mag |-> 0]
NegInf == [cls |-> "inf", neg |-> TRUE, mag |-> 0]
NaN == [cls |-> "nan", neg |-> FALSE, mag |-> 0]
Infinity(neg) == IF neg THEN NegInf ELSE PosInf

\* the magnitudes the format represents: m * 2^e, m < 2^MantBits, e <= ExpMax
Magnitudes ==
    {m * Pow2(e) : m \in 0..(Pow2(MantBits) - 1), e \in 0..ExpMax}

\* every value of T
Floats ==
    {[cls |-> "finite", neg |-> s, mag |-> m] : s \in BOOLEAN, m \in Magnitudes}
        \cup {PosInf, NegInf, NaN}

\* the number a finite value denotes, in units
FNum(f) == IF f.neg THEN -f.mag ELSE f.mag

\* the magnitude num/den rounded to the format, trying the exponents from e up
RECURSIVE RoundMag(_, _, _, _)
RoundMag(num, den, neg, e) ==
    LET ulp == den * Pow2(e)
    IN  IF num >= Pow2(MantBits) * ulp /\ e < ExpMax
        THEN RoundMag(num, den, neg, e + 1)
        ELSE LET m == num \div ulp
                 rest == num - m * ulp
                 up == 2 * rest > ulp \/ (2 * rest = ulp /\ m % 2 = 1)
                 r == IF up THEN m + 1 ELSE m
             IN  IF r * Pow2(e) > MaxFinite
                 THEN Infinity(neg)
                 ELSE [cls |-> "finite", neg |-> neg, mag |-> r * Pow2(e)]

std_isnan(a) == a.cls = "nan"
std_isinf(a) == a.cls = "inf"
std_abs(a) == [a EXCEPT !.neg = FALSE]

\* a - b
FSub(a, b) ==
    IF std_isnan(a) \/ std_isnan(b) THEN NaN
    ELSE IF std_isinf(a) THEN (IF std_isinf(b) /\ a.neg = b.neg THEN NaN ELSE a)
    ELSE IF std_isinf(b) THEN Infinity(~b.neg)
    ELSE LET n == FNum(a) - FNum(b)
         IN  IF n = 0
             THEN [cls |-> "finite", neg |-> a.neg /\ ~b.neg, mag |-> 0]
             ELSE RoundMag(IF n < 0 THEN -n ELSE n, 1, n < 0, 0)

\* a * b
FMul(a, b) ==
    IF std_isnan(a) \/ std_isnan(b) THEN NaN
    ELSE IF std_isinf(a) \/ std_isinf(b)
         THEN (IF (a.cls = "finite" /\ a.mag = 0) \/ (b.cls = "finite" /\ b.mag = 0)
               THEN NaN
               ELSE Infinity(a.neg # b.neg))
    ELSE RoundMag(a.mag * b.mag, One, a.neg # b.neg, 0)

\* the place of a non-NaN value in the order of T
FOrd(a) ==
    IF std_isinf(a) THEN (IF a.neg THEN -(MaxFinite + 1) ELSE MaxFinite + 1)
    ELSE FNum(a)

\* a < b, a <= b, a > b, a >= b
FLess(a, b) == ~std_isnan(a) /\ ~std_isnan(b) /\ FOrd(a) < FOrd(b)
FLessEq(a, b) == ~std_isnan(a) /\ ~std_isnan(b) /\ FOrd(a) <= FOrd(b)
FGreater(a, b) == FLess(b, a)
FGreaterEq(a, b) == FLessEq(b, a)

\* a max that answers its first argument
StdMaxLeft(a, b) == a

\* std::max(a, b): (a < b) ? b : a
std_max(a, b) == IF FLess(a, b) THEN b ELSE a

\* T(v) of an unsigned v
FromUnsigned(v) == RoundMag(v * One, 1, FALSE, 0)

\* std::numeric_limits<T>::epsilon(): 1.0 to the next value above it
epsilon == Finite(One \div Pow2(MantBits - 1))

\* the values either macro is defined with
MacroValues == {5, 10}
MacroStates == {Undefined} \cup {Defined(v) : v \in MacroValues}
MacroConfigs ==
    [SENOVAL_DEFAULT_FLOAT_COMPARISON_EPSILON_MULT : MacroStates,
     DEFAULT_FLOAT_COMPARISON_EPSILON_MULT : MacroStates]

\* DefaultEpsilonMultiplier under the macros m: the #ifdef tests one macro, the
\* initializer of its branch expands the other one
DefaultEpsilonMultiplierOf(m) ==
    IF m.SENOVAL_DEFAULT_FLOAT_COMPARISON_EPSILON_MULT.defined
    THEN m.DEFAULT_FLOAT_COMPARISON_EPSILON_MULT
    ELSE Defined(10)

\* the initializer names something: the translation unit compiles
Compiles(m) == DefaultEpsilonMultiplierOf(m).defined

DefaultEpsilonMultiplier == DefaultEpsilonMultiplierOf(macros).value

\* equal(left, right) of a floating-point type
equal(left, right) == FLessEq(left, right) /\ FGreaterEq(left, right)

\* close(a, b, absolute_epsilon, relative_epsilon)
close(a, b, absolute_epsilon, relative_epsilon) ==
    IF std_isnan(a) \/ std_isnan(b) THEN FALSE
    ELSE IF std_isinf(a) \/ std_isinf(b) THEN equal(a, b)
    ELSE IF FLessEq(std_abs(FSub(a, b)), absolute_epsilon) THEN TRUE
    ELSE FLessEq(std_abs(FSub(a, b)),
                 FMul(std_max(std_abs(a), std_abs(b)), relative_epsilon))

\* the relative epsilon of close(left, right)
DefaultRelativeEpsilon == FMul(epsilon, FromUnsigned(DefaultEpsilonMultiplier))

\* close(left, right) of one floating-point type
closeDefault(left, right) == close(left, right, epsilon, DefaultRelativeEpsilon)

\* an argument of the sign predicates: a value of T or of an integral type
FloatArg(f) == [floating |-> TRUE, type |-> Bool, f |-> f, i |-> 0]
IntArg(t, v) == [floating |-> FALSE, type |-> t, f |-> NaN, i |-> v]

\* a positive() that leaves the comparison with zero to operator >
PositiveExact(a) ==
    IF a.floating THEN FGreater(a.f, Finite(0)) ELSE a.i > Wrap(0, a.type)

closeToZero(a) ==
    IF a.floating THEN closeDefault(a.f, Finite(0)) ELSE a.i = Wrap(0, a.type)

positive(a) ==
    /\ IF a.floating THEN FGreater(a.f, Finite(0)) ELSE a.i > Wrap(0, a.type)
    /\ ~closeToZero(a)

negative_(a) ==
    /\ IF a.floating THEN FLess(a.f, Finite(0)) ELSE a.i < Wrap(0, a.type)
    /\ ~closeToZero(a)

----------------------------------------------------------------------------
(* The comparator driven by a caller, in a translation unit compiled with   *)
(* one of the macro configurations                                          *)

\* the values handed to close(): zero of either sign, the values at and next
\* to the default epsilon and to 1.0, the ends of the range, the infinities, NaN
CloseMagnitudes ==
    {0, 1, epsilon.mag - 1, epsilon.mag, epsilon.mag + 1, One - epsilon.mag,
     One - epsilon.mag \div 2, One, One + epsilon.mag, 2 * One, MaxFinite}
CloseArgs ==
    {[cls |-> "finite", neg |-> s, mag |-> m] : s \in BOOLEAN, m \in CloseMagnitudes}
        \cup {PosInf, NegInf, NaN}

\* the epsilons handed to close(): zero, the default ones, infinity, and what
\* no tolerance is: a negative value, NaN
Tolerances ==
    {Finite(0), epsilon, Finite(10 * epsilon.mag), PosInf, Finite(-epsilon.mag), NaN}

\* the arguments of the sign predicates
SignArgs ==
    {FloatArg(f) : f \in Floats}
        \cup UNION {{IntArg(t, v) : v \in Values(t)} : t \in IntTypes}

InitCompare ==
    /\ obj = "comparator"
    /\ build = "checked"
    /\ macros \in MacroConfigs
    /\ pc = IF Compiles(macros) THEN "idle" ELSE "rejected"
    /\ op = OpRec("none", 0, FALSE)
    /\ rsz = 0 /\ rfill = 0 /\ steps = 0
    /\ hist = <<>>
    /\ ConvIdle /\ StrIdle /\ VecIdle

CompareFrame ==
    UNCHANGED <<build, aborted, resizeVars, tracking, obj, macros, convVars, hist,
                strVars, vecVars>>

CompareReturn ==
    /\ obj = "comparator" /\ pc = "done"
    /\ pc' = "idle"
    /\ op' = OpRec("none", 0, FALSE)
    /\ CompareFrame

\* close(a, b, absolute_epsilon, relative_epsilon)
CallClose ==
    /\ obj = "comparator" /\ pc = "idle"
    /\ \E a \in CloseArgs, b \in CloseArgs, ae \in Tolerances, re \in Tolerances :
        Returned("close", <<a, b, ae, re>>, close(a, b, ae, re))
    /\ CompareFrame

\* close(left, right)
CallCloseDefault ==
    /\ obj = "comparator" /\ pc = "idle"
    /\ \E left \in CloseArgs, right \in CloseArgs :
        Returned("close_default", <<left, right>>,
                 [close |-> closeDefault(left, right),
                  relative_epsilon |-> DefaultRelativeEpsilon])
    /\ CompareFrame

\* closeToZero(a), positive(a), negative(a)
CallSigns ==
    /\ obj = "comparator" /\ pc = "idle"
    /\ \E a \in SignArgs :
        Returned("signs", a, [closeToZero |-> closeToZero(a),
                              positive |-> positive(a),
                              negative |-> negative_(a)])
    /\ CompareFrame

NextCompare == CompareReturn \/ CallClose \/ CallCloseDefault \/ CallSigns

SpecCompare == InitCompare /\ [][NextCompare]_vars

----------------------------------------------------------------------------
(* Laws of the comparator *)

\* C22: sign trichotomy: for every argument that is not NaN, and for every
\* integer, exactly one of closeToZero(x), positive(x) and negative(x) is true;
\* so closeToZero excludes the other two, and positive and negative are never
\* both true.
SignTrichotomy ==
    (obj = "comparator" /\ pc = "done" /\ op.name = "signs"
        /\ (op.arg.floating => ~std_isnan(op.arg.f))) =>
        /\ Cardinality({p \in {"closeToZero", "positive", "negative"} : op.res[p]}) = 1
        /\ (op.res.closeToZero => ~op.res.positive /\ ~op.res.negative)
        /\ ~(op.res.positive /\ op.res.negative)

\* closeToZero(epsilon) is true of a value that is above zero, and the next
\* value above epsilon is positive in another call
SignTrichotomyWitness ==
    /\ obj = "comparator" /\ pc = "done" /\ op.name = "signs"
    /\ op.arg = FloatArg(epsilon)
    /\ op.res.closeToZero /\ ~op.res.positive /\ ~op.res.negative

\* close(a, b, absolute_epsilon, relative_epsilon) has returned
CloseCalled == obj = "comparator" /\ pc = "done" /\ op.name = "close"

\* the decision in the order the claim gives for the arguments of the call
CloseDecided ==
    LET a == op.arg[1]
        b == op.arg[2]
        d == std_abs(FSub(a, b))
        larger == IF FLess(std_abs(a), std_abs(b)) THEN std_abs(b) ELSE std_abs(a)
    IN  op.res =
            IF a.cls = "nan" \/ b.cls = "nan" THEN FALSE
            ELSE IF a.cls = "inf" \/ b.cls = "inf"
                 THEN a.cls = "inf" /\ b.cls = "inf" /\ a.neg = b.neg
            ELSE IF FLessEq(d, op.arg[3]) THEN TRUE
            ELSE FLessEq(d, FMul(larger, op.arg[4]))

\* the call with a and b exchanged decides the same
CloseSymmetric == close(op.arg[2], op.arg[1], op.arg[3], op.arg[4]) = op.res

\* C23 as claimed: close decides in the order NaN, infinity, absolute epsilon,
\* relative epsilon; it is symmetric in a and b; and close(a, a, ...) is true
\* for every a that is not NaN, whatever the epsilons.
CloseLaw ==
    CloseCalled =>
        /\ CloseDecided
        /\ CloseSymmetric
        /\ (op.arg[1] = op.arg[2] /\ ~std_isnan(op.arg[1]) => op.res)

\* C23 amended: the order of the decision and the symmetry as claimed;
\* close(a, a, ...) of an a that is not NaN is true exactly when a is infinite
\* or one of the two thresholds, absolute_epsilon and |a| * relative_epsilon,
\* is at least zero: with epsilons that are negative or NaN it is false.
CloseLawAmended ==
    CloseCalled =>
        /\ CloseDecided
        /\ CloseSymmetric
        /\ (op.arg[1] = op.arg[2] /\ ~std_isnan(op.arg[1]) =>
                (op.res <=> \/ std_isinf(op.arg[1])
                            \/ FLessEq(Finite(0), op.arg[3])
                            \/ FLessEq(Finite(0), FMul(std_abs(op.arg[1]), op.arg[4]))))

\* two different finite values further apart than absolute_epsilon are close
\* by the relative epsilon
CloseLawAmendedWitness ==
    /\ CloseCalled
    /\ op.arg[1].cls = "finite" /\ op.arg[2].cls = "finite"
    /\ FNum(op.arg[1]) # FNum(op.arg[2])
    /\ ~FLessEq(std_abs(FSub(op.arg[1], op.arg[2])), op.arg[3])
    /\ op.res

\* C30: the default epsilon multiplier is 10 when no override is configured;
\* when SENOVAL_DEFAULT_FLOAT_COMPARISON_EPSILON_MULT is defined with the value
\* M, the translation unit compiles and the multiplier of the default relative
\* epsilon is M.
DefaultMultiplierLaw ==
    obj = "comparator" =>
        LET override == macros.SENOVAL_DEFAULT_FLOAT_COMPARISON_EPSILON_MULT
            M == IF override.defined THEN override.value ELSE 10
        IN  /\ pc # "rejected"
            /\ DefaultEpsilonMultiplier = M
            /\ (pc = "done" /\ op.name = "close_default" =>
                    op.res.relative_epsilon = FMul(epsilon, FromUnsigned(M)))

----------------------------------------------------------------------------
(* Further laws of the containers *)

\* C24: Vector::resize(count, fill) with count <= N ends with size() = count,
\* so its closing assertion does not fail; the first min(old length, count)
\* elements are unchanged; when it grows, every element in [old length, count)
\* equals fill, whatever the slots held before.
VectorResizeFills ==
    (obj = "vector" /\ pc = "done" /\ op.name = "v_resize" /\ op.arg[1] <= VCapacity) =>
        LET count == op.arg[1]
            fill == op.arg[2]
            old == Len(op.res)
        IN  /\ ~aborted
            /\ vlen_ = count
            /\ \A i \in 0..(Min(old, count) - 1) : vbuf_[i] = op.res[i + 1]
            /\ \A i \in old..(count - 1) : vbuf_[i] = fill

\* resize has grown the Vector over a slot that held another value than fill
VectorResizeFillsWitness ==
    /\ obj = "vector" /\ pc = "done" /\ op.name = "v_resize"
    /\ Len(op.res) < op.arg[1] /\ op.arg[1] <= VCapacity
    /\ op.arg[3][Len(op.res)] # op.arg[2]
    /\ vbuf_[Len(op.res)] = op.arg[2]
    /\ vlen_ = op.arg[1]

\* C25: clear() on a String or a Vector in any reachable state sets the length
\* to 0 (for the String with the terminator at index 0, the buffer denoting the
\* empty text) and leaves the capacity as it was; what is applied afterwards
\* behaves as on a freshly constructed empty container: the object is in a
\* state its default constructor can leave it in, and push_back, +=, append
\* and resize yield the content they yield on a new object.
ClearLaw ==
    /\ (obj = "string" /\ pc = "done" /\ op.name = "clear") =>
           /\ len_ = 0 /\ buf_[0] = NUL
           /\ CStr(buf_, Capacity) = <<>>
           /\ DOMAIN buf_ = 0..Capacity
           /\ Str \in Fresh(Constructed)
           /\ \A c \in Chars :
                  LET here == PushBackOp(Str, Capacity, c)
                      new == PushBackOp(Constructed, Capacity, c)
                  IN  Content(here.len, here.buf) = Content(new.len, new.buf)
           /\ \A p \in Texts :
                  LET here == AppendLoop(Str, Capacity, p, 0)
                      new == AppendLoop(Constructed, Capacity, p, 0)
                  IN  Content(here.len, here.buf) = Content(new.len, new.buf)
           /\ \A sz \in 0..Capacity, c \in Chars :
                  LET here == ResizeOp(Str, Capacity, sz, c)
                      new == ResizeOp(Constructed, Capacity, sz, c)
                  IN  Content(here.len, here.buf) = Content(new.len, new.buf)
    /\ (obj = "vector" /\ pc = "done" /\ op.name = "v_clear") =>
           /\ vlen_ = 0 /\ ~aborted /\ ~oob
           /\ DOMAIN vbuf_ = 0..(VCapacity - 1)
           /\ Vec \in VFresh(VBlank)
           /\ \A c \in Elems :
                  LET here == VPushBackOp(Vec, VCapacity, c, build)
                      new == VPushBackOp(VBlank, VCapacity, c, build)
                  IN  here.ab = new.ab /\ VContent(here.len, here.buf) = VContent(new.len, new.buf)
           /\ \A other \in ElemSeqs :
                  LET here == VPushAll(Vec, VCapacity, other, 1, build)
                      new == VPushAll(VBlank, VCapacity, other, 1, build)
                  IN  here.ab = new.ab /\ VContent(here.len, here.buf) = VContent(new.len, new.buf)
           /\ \A count \in 0..VCapacity, fill \in Elems :
                  LET here == VResizeOp(Vec, VCapacity, count, fill, build)
                      new == VResizeOp(VBlank, VCapacity, count, fill, build)
                  IN  here.ab = new.ab /\ VContent(here.len, here.buf) = VContent(new.len, new.buf)

\* clear() has emptied a String whose characters are still in the store behind
\* the terminator
ClearLawWitness ==
    /\ obj = "string" /\ pc = "done" /\ op.name = "clear"
    /\ len_ = 0 /\ buf_[0] = NUL
    /\ buf_[1] # NUL /\ buf_[2] # NUL

----------------------------------------------------------------------------
(* String::toLowerCase, String::toUpperCase, on Strings made of letters and  *)
(* of the characters next to the letters.  The characters are those of the   *)
(* range 0..127, for which std::tolower and std::toupper are defined, in the *)
(* "C" locale the program starts in                                          *)

\* '\0', '0', '@', 'A', 'Z', '[', '`', 'a', 'z', '{', DEL
CaseChars == {NUL, 48, 64, 65, 90, 91, 96, 97, 122, 123, 127}

\* a conversion that flips the case bit of every character of the letters' columns
CaseCharColumns(c, lower) ==
    IF lower
    THEN (IF 64 <= c /\ c <= 95 THEN c + 32 ELSE c)
    ELSE (IF 96 <= c /\ c <= 127 THEN c - 32 ELSE c)

\* char(std::tolower(c)) if lower, char(std::toupper(c)) otherwise
CaseChar(c, lower) ==
    IF lower
    THEN (IF 65 <= c /\ c <= 90 THEN c + 32 ELSE c)
    ELSE (IF 97 <= c /\ c <= 122 THEN c - 32 ELSE c)

\* std::transform(begin(), end(), std::back_inserter(out), ...): push_back on
\* out of the converted character, for each of the len_ characters from k on
RECURSIVE TransformLoop(_, _, _, _, _)
TransformLoop(out, cap, content, k, lower) ==
    IF k > Len(content) THEN out
    ELSE TransformLoop(PushBackOp(out, cap, CaseChar(content[k], lower)),
                       cap, content, k + 1, lower)

\* toLowerCase() / toUpperCase(): String<Capacity> out; transform; return out
ToCaseOp(st, cap, lower) ==
    TransformLoop(Constructed, cap, Content(st.len, st.buf), 1, lower)

\* the String is constructed from a range of such characters
InitCase ==
    /\ obj = "string"
    /\ build = "checked"
    /\ Fixed /\ VecIdle
    /\ tracking = FALSE /\ macros = NoMacros
    /\ \E p \in SeqsUpTo(CaseChars, Capacity) :
        \E r \in Fresh(RangeLoop([len |-> 0, buf |-> Blank], Capacity, p, 0)) :
            /\ len_ = r.len /\ buf_ = r.buf
            /\ op = OpRec("ctor_range", p, FALSE)

\* the record of a conversion: arg is the String it was called on, res the
\* length, the content and the terminator of the String it returned
CaseReturned(name, lower) ==
    LET out == ToCaseOp(Str, Capacity, lower)
    IN  Returned(name, Str, [len |-> out.len,
                             content |-> Content(out.len, out.buf),
                             terminator |-> out.buf[out.len]])

ToLowerCase ==
    /\ obj = "string" /\ pc = "idle"
    /\ CaseReturned("toLowerCase", TRUE)
    /\ UNCHANGED <<strVars, hist>>
    /\ Frame

ToUpperCase ==
    /\ obj = "string" /\ pc = "idle"
    /\ CaseReturned("toUpperCase", FALSE)
    /\ UNCHANGED <<strVars, hist>>
    /\ Frame

NextCase == Return \/ ToLowerCase \/ ToUpperCase

SpecCase == InitCase /\ [][NextCase]_vars

\* the letters of ASCII
UpperLetters == 65..90
LowerLetters == 97..122

\* C26: toLowerCase() and toUpperCase() do not modify the String; they return
\* a String of the same capacity and the same length in which, position by
\* position, each ASCII letter is of the requested case and every other
\* character is the one of the original; the same conversion applied to the
\* result yields the result again.
CaseLaw ==
    (obj = "string" /\ pc = "done" /\ op.name \in {"toLowerCase", "toUpperCase"}) =>
        LET lower == op.name = "toLowerCase"
            again == ToCaseOp(StringOf(op.res.content), Capacity, lower)
        IN  /\ Str = op.arg
            /\ op.res.len = len_
            /\ Len(op.res.content) = len_
            /\ op.res.terminator = NUL
            /\ \A i \in 1..len_ :
                   LET c == buf_[i - 1]
                   IN  op.res.content[i] =
                           IF lower /\ c \in UpperLetters THEN c + 32
                           ELSE IF ~lower /\ c \in LowerLetters THEN c - 32
                           ELSE c
            /\ again.len = op.res.len
            /\ Content(again.len, again.buf) = op.res.content

\* toUpperCase() of a full String of a lower-case letter, a character next to
\* the letters and an upper-case letter
CaseLawWitness ==
    /\ obj = "string" /\ pc = "done" /\ op.name = "toUpperCase"
    /\ len_ = Capacity
    /\ buf_[0] = 97 /\ buf_[1] = 96 /\ buf_[2] = 90
    /\ op.res.content[1] = 65 /\ op.res.content[2] = 96 /\ op.res.content[3] = 90

----------------------------------------------------------------------------
(* Further laws of the converter *)

\* C27: for every radix that passes the converter's compile-time checks
\* (Radix >= 1 and not larger than the alphabet array) and every value, the
\* divide loop terminates: each iteration either leaves the quotient zero or
\* brings it closer to zero, without a fault, so the quotient reaches zero
\* after finitely many steps and the conversion returns.
DivideLoopTerminates ==
    [][pc = "conv" =>
          /\ ~aborted' /\ ~oob'
          /\ \/ x' = 0
             \/ (IF x' < 0 THEN -x' ELSE x') < (IF x < 0 THEN -x ELSE x)]_vars

----------------------------------------------------------------------------
(* Access in a build without checks *)

\* C28: in a build without checks no access operation of String or Vector
\* yields a reference outside the store: operator[](i) with i >= length()
\* refers to the last element (index length() - 1) of a non-empty container and
\* to slot 0 of an empty one, front() and back() of an empty container refer to
\* slot 0, and every index referred to is in [0, N] for String and in [0, N)
\* for Vector.
AccessWithinStore ==
    (pc = "done" /\ build = "unchecked") =>
        /\ op.name \in {"index", "front", "back"} =>
               /\ ~aborted
               /\ op.res \in 0..Capacity
               /\ op.res = IF op.name = "back" THEN (IF len_ > 0 THEN len_ - 1 ELSE 0)
                           ELSE IF op.arg < len_ THEN op.arg
                           ELSE IF len_ > 0 THEN len_ - 1
                           ELSE 0
        /\ op.name \in {"v_index", "v_front", "v_back"} =>
               /\ ~aborted
               /\ op.res \in 0..(VCapacity - 1)
               /\ op.res = IF op.name = "v_back" THEN (IF vlen_ > 0 THEN vlen_ - 1 ELSE 0)
                           ELSE IF op.arg < vlen_ THEN op.arg
                           ELSE IF vlen_ > 0 THEN vlen_ - 1
                           ELSE 0

\* operator[] of a full Vector called with an index behind its store has
\* referred to the last element
AccessWithinStoreWitness ==
    /\ obj = "vector" /\ pc = "done" /\ build = "unchecked"
    /\ op.name = "v_index" /\ vlen_ = VCapacity /\ op.arg > VCapacity
    /\ op.res = VCapacity - 1

----------------------------------------------------------------------------
(* The logical content of a Vector *)

\* C29: for a Vector with len < N, push_back(v) followed by pop_back()
\* restores the length and the logical content; what size(), empty(),
\* equality (with the Vectors of the same length; it is false with all others),
\* iteration and valid indexed reads observe depends on the elements [0, len)
\* only; and a value left behind by pop_back, clear or a shrinking
\* resize does not come back into the content: whatever the slots behind the
\* length hold, push_back, append and resize yield the same content, and a
\* resize that grows has filled every slot the length newly covers.
LogicalContentLaw ==
    (obj = "vector" /\ ~aborted) =>
        /\ (pc = "idle" /\ vlen_ < VCapacity) =>
               \A v \in Elems :
                   LET r == VPopBackOp(VPushBackOp(Vec, VCapacity, v, build), build)
                   IN  /\ ~r.ab /\ ~r.oob
                       /\ r.len = vlen_
                       /\ VContent(r.len, r.buf) = VContent(vlen_, vbuf_)
        /\ pc = "idle" =>
               \A alt \in VFresh(Vec) :
                   /\ alt.len = vlen_
                   /\ (alt.len = 0) = (vlen_ = 0)
                   /\ VContent(alt.len, alt.buf) = VContent(vlen_, vbuf_)
                   /\ \A i \in 0..(vlen_ - 1) :
                          alt.buf[VIndexRef(alt.len, i, build)] = vbuf_[VIndexRef(vlen_, i, build)]
                   /\ \A w \in {u \in OtherVectors : u.len = vlen_} :
                          /\ VEqualRange(alt, w) = VEqualRange(Vec, w)
                          /\ VEqualRange(w, alt) = VEqualRange(w, Vec)
                          /\ VNotEqualRange(alt, w) = VNotEqualRange(Vec, w)
                   /\ \A v \in Elems :
                          LET here == VPushBackOp(Vec, VCapacity, v, build)
                              there == VPushBackOp(alt, VCapacity, v, build)
                          IN  VContent(there.len, there.buf) = VContent(here.len, here.buf)
                   /\ \A other \in SeqsUpTo(ArgElems, VCapacity + 1) :
                          LET here == VPushAll(Vec, VCapacity, other, 1, build)
                              there == VPushAll(alt, VCapacity, other, 1, build)
                          IN  VContent(there.len, there.buf) = VContent(here.len, here.buf)
                   /\ \A count \in 0..VCapacity, fill \in ArgElems :
                          LET here == VResizeOp(Vec, VCapacity, count, fill, build)
                              there == VResizeOp(alt, VCapacity, count, fill, build)
                          IN  VContent(there.len, there.buf) = VContent(here.len, here.buf)
        /\ (pc = "vresize" \/ (pc = "done" /\ op.name = "v_resize")) =>
               \A i \in Len(op.res)..(vlen_ - 1) : vbuf_[i] = op.arg[2]

\* pop_back() has left a value in the slot behind the last element
LogicalContentLawWitness ==
    /\ obj = "vector" /\ pc = "done" /\ ~aborted
    /\ op.name = "v_pop_back"
    /\ vlen_ > 0 /\ vlen_ < VCapacity
    /\ vbuf_[vlen_] # vbuf_[vlen_ - 1]
====
